---- MODULE Spec2Model ----
(***************************************************************************)
(* A model of the github-events pipeline:                                  *)
(*   - the producer run github_events_etl (src/main.py) with the           *)
(*     configuration check (src/config.py), the row-count probe and the    *)
(*     streamed query (src/bq_client.py);                                  *)
(*   - the publish sink PubSubClient.publish_events (src/pubsub_client.py),*)
(*     down to the single publish request and its future;                  *)
(*   - the pull consumer GitHubEventProcessor (src/process_messages.py).   *)
(*                                                                         *)
(* Three specifications share the variables:                               *)
(*   Spec          one producer run, publish_events included;              *)
(*   SpecPublish   one publish_events call on an arbitrary input;          *)
(*   SpecConsumer  one pull_and_process_all run.                           *)
(*                                                                         *)
(* Scaling.  The chunk threshold of the producer is the literal 1000 in    *)
(* src/main.py:77; the model keeps the comparison (len(events) >=          *)
(* threshold) and scales the number to ChunkThreshold so that several      *)
(* full chunks and a remainder fit in a run of MaxRecords records.         *)
(* A record is identified by its position in the stream.                   *)
(***************************************************************************)
EXTENDS Integers, Sequences, FiniteSets, TLC

\* ---------------------------------------------------------------- bounds
\* the longest stream the query may yield in one run
MaxRecords == 7
\* the largest value the row-count probe may report
MaxRows == 2
\* the longest input of a stand-alone publish_events call
MaxEvents == 3
\* the largest configured BATCH_SIZE
MaxBatchSize == 2

\* the largest max_messages a consumer run is started with
MaxMessagesArg == 2
\* the number of messages the broker delivers in one consumer run
MaxDeliveries == 3

\* main.py:77, "if len(events) >= 1000", scaled (see the header)
ChunkThreshold == 3

\* ------------------------------------------------------------- variables
VARIABLES
    \* --- configuration (config.py) ---
    PUBSUB_PROJECT_ID,  \* "none" (unset), "empty" ("") or "set"
    PUBSUB_TOPIC_ID,    \* "none" (unset), "empty" ("") or "set"
    BATCH_SIZE,         \* Config.BATCH_SIZE
    \* --- github_events_etl (main.py) ---
    epc,                \* position of the run
    row_count,          \* local row_count
    events,             \* local events: the in-memory buffer
    streamed,           \* number of records the stream has yielded
    published_count,    \* local published_count
    result,             \* the returned summary, NoResult before the return
    errorAt,            \* the step whose exception reached the handler, or "none"
    \* --- what the run did (observations) ---
    probeCalls,         \* get_row_count calls issued
    probeFailed,        \* the query of a get_row_count call failed
    queryCalls,         \* query_github_events calls issued
    publishCalls,       \* the argument of every publish_events call, in order
    publishReturns,     \* the value every returned publish_events call gave
    \* --- publish_events (pubsub_client.py) ---
    ppc,                \* position of the call
    pevents,            \* argument events
    futures,            \* local futures: one entry per submitted request
    pcount,             \* local published_count of publish_events
    pret,               \* the returned value
    deadlinePassed,     \* 30 time units have passed since awaiting began
    \* --- pull_and_process_all (process_messages.py) ---
    max_messages,       \* argument max_messages
    cpc,                \* position of the run
    batch,              \* response.received_messages of the current pull
    tasks,              \* the pool's task of each message of the batch
    processed_count,    \* local processed_count
    failed_count,       \* local failed_count
    ack_ids,            \* local ack_ids
    total_processed,    \* local total_processed
    total_failed,       \* local total_failed
    \* --- what the run did (observations) ---
    received,           \* every message received, by ack id: data, pull, outcome
    pullLog,            \* the outcome of every pull: its size, or that it raised
    ackSent,            \* every acknowledge request sent: pull, ack ids, accepted
    acked,              \* the ack ids the broker accepted
    \* --- main of the consumer (process_messages.py) ---
    PROJECT_ID,         \* os.getenv('PROJECT_ID'): "none", "empty" or "set"
    SUBSCRIPTION_ID,    \* os.getenv('SUBSCRIPTION_ID'): "none", "empty" or "set"
    mpc,                \* position of main
    stdout,             \* the lines printed
    exit_code,          \* the exit code of the process, NoValue while it runs
    uncaught,           \* an exception left main uncaught
    \* --- the time window (config.py) ---
    HOURS_BEHIND,       \* Config.HOURS_BEHIND
    current_time,       \* argument current_time, a datetime
    min_timestamp,      \* the value get_min_timestamp returned
    max_timestamp,      \* the value get_max_timestamp returned
    wpc                 \* position of the computation

etlVars == <<epc, row_count, events, streamed, published_count, result, errorAt,
             probeCalls, probeFailed, queryCalls, publishCalls, publishReturns>>
pubVars == <<ppc, pevents, futures, pcount, pret, deadlinePassed>>
cfgVars == <<PUBSUB_PROJECT_ID, PUBSUB_TOPIC_ID, BATCH_SIZE>>
conVars == <<max_messages, cpc, batch, tasks, processed_count, failed_count,
             ack_ids, total_processed, total_failed, received, pullLog,
             ackSent, acked>>
mainVars == <<PROJECT_ID, SUBSCRIPTION_ID, mpc, stdout, exit_code, uncaught>>
winVars == <<HOURS_BEHIND, current_time, min_timestamp, max_timestamp, wpc>>
vars == <<cfgVars, etlVars, pubVars, conVars, mainVars, winVars>>

NoResult == [status |-> "none", events_processed |-> 0, events_published |-> 0]
\* the value of a local before its first assignment
NoValue == 0 - 1

\* ------------------------------------------------------------- helpers
RECURSIVE SumSeq(_)
SumSeq(s) == IF s = <<>> THEN 0 ELSE Head(s) + SumSeq(Tail(s))

RECURSIVE Flatten(_)
Flatten(ss) == IF ss = <<>> THEN <<>> ELSE Head(ss) \o Flatten(Tail(ss))

Min(a, b) == IF a < b THEN a ELSE b

\* ------------------------------------------------------------ config.py
\* "not cls.X": true of None and of the empty string
Missing_NoneOnly(v) == v = "none"
Missing(v) == v \in {"none", "empty"}

\* Config.validate_config: TRUE when it returns, FALSE when it raises ValueError
validate_config ==
    IF Missing(PUBSUB_PROJECT_ID) THEN FALSE
    ELSE IF Missing(PUBSUB_TOPIC_ID) THEN FALSE
    ELSE TRUE

\* ------------------------------------------------------ pubsub_client.py
\* PubSubClient._create_batches, for batch_size >= 1:
\* items[i:i + batch_size] for i in range(0, len(items), batch_size)
_create_batches_DropTail(items, batch_size) ==
    LET k == Len(items) \div batch_size
    IN  [b \in 1..k |->
            SubSeq(items, (b - 1) * batch_size + 1, b * batch_size)]
_create_batches_Overlap(items, batch_size) ==
    LET n == Len(items)
        k == (n + batch_size - 1) \div batch_size
    IN  [b \in 1..k |->
            SubSeq(items, (b - 1) * batch_size + 1, Min(b * batch_size + 1, n))]
_create_batches(items, batch_size) ==
    LET n == Len(items)
        k == (n + batch_size - 1) \div batch_size
    IN  [b \in 1..k |->
            SubSeq(items, (b - 1) * batch_size + 1, Min(b * batch_size, n))]

\* the events in the order the two nested loops visit them
SubmissionOrder == Flatten(_create_batches(pevents, BATCH_SIZE))

NewFuture(ev) == [ev |-> ev, state |-> "pending", late |-> FALSE, yielded |-> FALSE]

\* "return 0" of the empty-input branch, pubsub_client.py:36
EmptyInputReturn_None == NoValue
EmptyInputReturn == 0

\* publish_events, entry: the empty-input return, else the set-up of the loops
PubStart ==
    /\ ppc = "called"
    /\ IF pevents = <<>>
       THEN /\ ppc' = "returned"
            /\ pret' = EmptyInputReturn
            /\ UNCHANGED <<futures, pcount>>
       ELSE /\ ppc' = "submitting"
            /\ futures' = <<>>
            /\ pcount' = 0
            /\ UNCHANGED pret
    /\ UNCHANGED <<pevents, deadlinePassed, cfgVars, etlVars, conVars, mainVars, winVars>>

\* one pass of the inner loop: json.dumps, client.publish, futures.append
PubSubmit ==
    /\ ppc = "submitting"
    /\ Len(futures) < Len(SubmissionOrder)
    /\ futures' = Append(futures, NewFuture(SubmissionOrder[Len(futures) + 1]))
    /\ UNCHANGED <<ppc, pevents, pcount, pret, deadlinePassed, cfgVars, etlVars, conVars, mainVars, winVars>>

\* (mutation: the outer except returns the count instead of re-raising)
PubSubmitRaise_Swallow ==
    /\ ppc = "submitting"
    /\ Len(futures) < Len(SubmissionOrder)
    /\ ppc' = "returned"
    /\ pret' = pcount
    /\ UNCHANGED <<pevents, futures, pcount, deadlinePassed, cfgVars, etlVars, conVars, mainVars, winVars>>

\* json.dumps or client.publish throws: the outer except logs and re-raises
PubSubmitRaise ==
    /\ ppc = "submitting"
    /\ Len(futures) < Len(SubmissionOrder)
    /\ ppc' = "raised"
    /\ UNCHANGED <<pevents, futures, pcount, pret, deadlinePassed, cfgVars, etlVars, conVars, mainVars, winVars>>

\* the submission loops are exhausted: as_completed(futures) starts
PubAwaitBegin ==
    /\ ppc = "submitting"
    /\ Len(futures) = Len(SubmissionOrder)
    /\ ppc' = "awaiting"
    /\ deadlinePassed' = FALSE
    /\ UNCHANGED <<pevents, futures, pcount, pret, cfgVars, etlVars, conVars, mainVars, winVars>>

\* the broker side: a submitted request completes, with a message id or an error
FutureComplete(i, outcome) ==
    /\ ppc \in {"submitting", "awaiting"}
    /\ i \in 1..Len(futures)
    /\ futures[i].state = "pending"
    /\ futures' = [futures EXCEPT ![i].state = outcome,
                                  ![i].late = (ppc = "awaiting" /\ deadlinePassed)]
    /\ UNCHANGED <<ppc, pevents, pcount, pret, deadlinePassed, cfgVars, etlVars, conVars, mainVars, winVars>>

\* time: 30 units go by while some request is still pending
DeadlinePass ==
    /\ ppc = "awaiting"
    /\ ~deadlinePassed
    /\ \E i \in 1..Len(futures) : futures[i].state = "pending"
    /\ deadlinePassed' = TRUE
    /\ UNCHANGED <<ppc, pevents, futures, pcount, pret, cfgVars, etlVars, conVars, mainVars, winVars>>

\* what future.result(timeout=30) does to the count for a future as_completed
\* yields: it is done, so result() returns or raises at once
CountAfter(count, state) == IF state = "ok" THEN count + 1 ELSE count

\* as_completed(futures) yields a future only once it is done
Yieldable(f) == f.state # "pending" /\ ~f.yielded

\* one pass of the await loop
PubYield(i) ==
    /\ ppc = "awaiting"
    /\ i \in 1..Len(futures)
    /\ Yieldable(futures[i])
    /\ futures' = [futures EXCEPT ![i].yielded = TRUE]
    /\ pcount' = CountAfter(pcount, futures[i].state)
    /\ UNCHANGED <<ppc, pevents, pret, deadlinePassed, cfgVars, etlVars, conVars, mainVars, winVars>>

\* as_completed is exhausted: return published_count
PubReturn ==
    /\ ppc = "awaiting"
    /\ \A i \in 1..Len(futures) : futures[i].yielded
    /\ ppc' = "returned"
    /\ pret' = pcount
    /\ UNCHANGED <<pevents, futures, pcount, deadlinePassed, cfgVars, etlVars, conVars, mainVars, winVars>>

PublishNext ==
    \/ PubStart
    \/ PubSubmit
    \/ PubSubmitRaise
    \/ PubAwaitBegin
    \/ \E i \in 1..Len(futures), o \in {"ok", "failed"} : FutureComplete(i, o)
    \/ DeadlinePass
    \/ \E i \in 1..Len(futures) : PubYield(i)
    \/ PubReturn


\* ------------------------------------------------------------- main.py
\* the call pubsub_client.publish_events(events) as the run makes it
CallPublish(evs) ==
    /\ ppc' = "called"
    /\ pevents' = evs
    /\ futures' = <<>>
    /\ pcount' = 0
    /\ pret' = NoValue
    /\ deadlinePassed' = FALSE
    /\ publishCalls' = Append(publishCalls, evs)

\* (mutation: events_processed counts the records streamed)
SuccessResult_Streamed(processed, published) ==
    [status |-> "success", events_processed |-> streamed,
     events_published |-> published]

\* the success summary of main.py:91-101
SuccessResult(processed, published) ==
    [status |-> "success", events_processed |-> processed,
     events_published |-> published]

\* the summary of the early return, main.py:63-69
EmptyWindowResult ==
    [status |-> "success", events_processed |-> 0, events_published |-> 0]

\* the summary of the top-level handler, main.py:111-117
ErrorResult ==
    [status |-> "error", events_processed |-> 0, events_published |-> 0]

\* "if len(events) >= 1000", main.py:77
ChunkFull_Late(evs) == Len(evs) > ChunkThreshold
ChunkFull(evs) == Len(evs) >= ChunkThreshold

\* "if row_count == 0", main.py:61
WindowEmpty_Never(rc) == rc < 0
WindowEmpty(rc) == rc = 0

\* the top-level handler, main.py:106-117: every Exception ends the run with
\* the error summary, returned to the caller
TopLevelHandler_Reraise == [epc |-> "crashed", result |-> NoResult]
TopLevelHandler == [epc |-> "done", result |-> ErrorResult]

\* an exception thrown at step `where` inside the try block
Raise(where) ==
    /\ epc' = TopLevelHandler.epc
    /\ result' = TopLevelHandler.result
    /\ errorAt' = where

\* Config.validate_config(), main.py:44; a ValueError goes to the handler
EtlValidate ==
    /\ epc = "start"
    /\ IF validate_config
       THEN /\ epc' = "clients"
            /\ UNCHANGED <<result, errorAt>>
       ELSE Raise("config")
    /\ UNCHANGED <<row_count, events, streamed, published_count, probeCalls, probeFailed,
                   queryCalls, publishCalls, publishReturns, pubVars, cfgVars, conVars, mainVars, winVars>>

\* BigQueryClient() and PubSubClient(), main.py:54-55
EtlClients ==
    /\ epc = "clients"
    /\ epc' = "probe"
    /\ UNCHANGED <<row_count, events, streamed, published_count, result, errorAt,
                   probeCalls, probeFailed, queryCalls, publishCalls, publishReturns,
                   pubVars, cfgVars, conVars, mainVars, winVars>>

\* a client constructor throws (no credentials, ...): to the handler
EtlClientsFail ==
    /\ epc = "clients"
    /\ Raise("clients")
    /\ UNCHANGED <<row_count, events, streamed, published_count, probeCalls, probeFailed,
                   queryCalls, publishCalls, publishReturns, pubVars, cfgVars, conVars, mainVars, winVars>>

\* BigQueryClient.get_row_count: the count of the query, 0 when the query fails
get_row_count_Sentinel(queryOk, count) == IF queryOk THEN count ELSE NoValue
get_row_count(queryOk, count) == IF queryOk THEN count ELSE 0

\* main.py:58-73: the probe, the early return, else the call of the streamed
\* query and the empty buffer
EtlProbe(queryOk, count) ==
    /\ epc = "probe"
    /\ probeCalls' = probeCalls + 1
    /\ probeFailed' = (probeFailed \/ ~queryOk)
    /\ row_count' = get_row_count(queryOk, count)
    /\ UNCHANGED errorAt
    /\ IF WindowEmpty(row_count')
       THEN /\ epc' = "done"
            /\ result' = EmptyWindowResult
            /\ UNCHANGED <<queryCalls, events>>
       ELSE /\ epc' = "stream"
            /\ queryCalls' = queryCalls + 1
            /\ events' = <<>>
            /\ UNCHANGED result
    /\ UNCHANGED <<streamed, published_count, publishCalls, publishReturns,
                   pubVars, cfgVars, conVars, mainVars, winVars>>

\* one pass of the for loop, main.py:73-80, up to the publish call: the stream
\* yields its next record, the buffer takes it, a full buffer is published
EtlStreamNext ==
    /\ epc = "stream"
    /\ streamed < MaxRecords
    /\ streamed' = streamed + 1
    /\ events' = Append(events, streamed + 1)
    /\ IF ChunkFull(events')
       THEN /\ epc' = "chunk_publish"
            /\ CallPublish(events')
       ELSE /\ epc' = "stream"
            /\ UNCHANGED <<publishCalls, pubVars>>
    /\ UNCHANGED <<row_count, published_count, result, errorAt, probeCalls, probeFailed,
                   queryCalls, publishReturns, cfgVars, conVars, mainVars, winVars>>

\* main.py:78-80 after the call returned: keep the count, clear the buffer
EtlChunkReturn ==
    /\ epc = "chunk_publish"
    /\ ppc = "returned"
    /\ published_count' = pret
    /\ publishReturns' = Append(publishReturns, pret)
    /\ events' = <<>>
    /\ epc' = "stream"
    /\ ppc' = "idle"
    /\ UNCHANGED <<row_count, streamed, result, errorAt, probeCalls, probeFailed, queryCalls,
                   publishCalls, pevents, futures, pcount, pret,
                   deadlinePassed, cfgVars, conVars, mainVars, winVars>>

\* the streamed query fails, at its start or between two records
\* (bq_client.py:78-80 re-raises): to the handler
EtlStreamFail ==
    /\ epc = "stream"
    /\ Raise("stream")
    /\ UNCHANGED <<row_count, events, streamed, published_count, probeCalls, probeFailed,
                   queryCalls, publishCalls, publishReturns, pubVars, cfgVars, conVars, mainVars, winVars>>

\* the stream is exhausted, main.py:82-104: reset published_count, publish the
\* remainder if there is one, else return the summary
EtlStreamEnd ==
    /\ epc = "stream"
    /\ published_count' = 0
    /\ IF events # <<>>
       THEN /\ epc' = "rest_publish"
            /\ CallPublish(events)
            /\ UNCHANGED result
       ELSE /\ epc' = "done"
            /\ result' = SuccessResult(row_count, published_count')
            /\ UNCHANGED <<publishCalls, pubVars>>
    /\ UNCHANGED <<row_count, events, streamed, errorAt, probeCalls, probeFailed, queryCalls,
                   publishReturns, cfgVars, conVars, mainVars, winVars>>

\* main.py:85-104 after the remainder's call returned
EtlRestReturn ==
    /\ epc = "rest_publish"
    /\ ppc = "returned"
    /\ published_count' = pret
    /\ publishReturns' = Append(publishReturns, pret)
    /\ epc' = "done"
    /\ result' = SuccessResult(row_count, published_count')
    /\ ppc' = "idle"
    /\ UNCHANGED <<row_count, events, streamed, errorAt, probeCalls, probeFailed, queryCalls,
                   publishCalls, pevents, futures, pcount, pret,
                   deadlinePassed, cfgVars, conVars, mainVars, winVars>>

\* publish_events raised (pubsub_client.py:78-80): to the handler
EtlPublishRaised ==
    /\ epc \in {"chunk_publish", "rest_publish"}
    /\ ppc = "raised"
    /\ Raise("publish")
    /\ ppc' = "idle"
    /\ UNCHANGED <<row_count, events, streamed, published_count, probeCalls, probeFailed,
                   queryCalls, publishCalls, publishReturns, pevents, futures,
                   pcount, pret, deadlinePassed, cfgVars, conVars, mainVars, winVars>>

EtlNext ==
    \/ EtlValidate
    \/ EtlClients
    \/ EtlClientsFail
    \/ \E ok \in BOOLEAN, n \in 0..MaxRows : EtlProbe(ok, n)
    \/ EtlStreamNext
    \/ EtlChunkReturn
    \/ EtlStreamFail
    \/ EtlStreamEnd
    \/ EtlRestReturn
    \/ EtlPublishRaised

\* ------------------------------------------------------------- Init
CfgValues == {"none", "empty", "set"}

EtlOff ==
    /\ epc = "off"
    /\ row_count = NoValue
    /\ events = <<>>
    /\ streamed = 0
    /\ published_count = NoValue
    /\ result = NoResult
    /\ errorAt = "none"
    /\ probeCalls = 0
    /\ probeFailed = FALSE
    /\ queryCalls = 0
    /\ publishCalls = <<>>
    /\ publishReturns = <<>>

PubIdle ==
    /\ ppc = "idle"
    /\ pevents = <<>>
    /\ futures = <<>>
    /\ pcount = 0
    /\ pret = NoValue
    /\ deadlinePassed = FALSE

\* a datetime: whole hours since the epoch and the fields below the hour
\* a datetime: the date and hour as one count of hours, then the three
\* components below the hour
DateTime(h, mi, sec, us) ==
    [hours |-> h, minute |-> mi, second |-> sec, microsecond |-> us]

WindowOff ==
    /\ HOURS_BEHIND = 2
    /\ current_time = DateTime(0, 0, 0, 0)
    /\ min_timestamp = DateTime(0, 0, 0, 0)
    /\ max_timestamp = DateTime(0, 0, 0, 0)
    /\ wpc = "off"

MainOff ==
    /\ PROJECT_ID = "set"
    /\ SUBSCRIPTION_ID = "set"
    /\ mpc = "off"
    /\ stdout = <<>>
    /\ exit_code = NoValue
    /\ uncaught = FALSE

ConsumerOff ==
    /\ MainOff
    /\ max_messages = 1
    /\ cpc = "off"
    /\ batch = <<>>
    /\ tasks = <<>>
    /\ processed_count = 0
    /\ failed_count = 0
    /\ ack_ids = <<>>
    /\ total_processed = 0
    /\ total_failed = 0
    /\ received = <<>>
    /\ pullLog = <<>>
    /\ ackSent = <<>>
    /\ acked = {}

InitPublish ==
    /\ ConsumerOff
    /\ WindowOff
    /\ PUBSUB_PROJECT_ID = "set"
    /\ PUBSUB_TOPIC_ID = "set"
    /\ BATCH_SIZE \in 1..MaxBatchSize
    /\ EtlOff
    /\ ppc = "called"
    /\ \E n \in 0..MaxEvents : pevents = [i \in 1..n |-> i]
    /\ futures = <<>>
    /\ pcount = 0
    /\ pret = NoValue
    /\ deadlinePassed = FALSE

SpecPublish == InitPublish /\ [][PublishNext]_vars

\* The same call with the scheduling the code has: the calling thread takes
\* its next step whenever it can, and time passes.  Nothing obliges the
\* broker to complete a request.
SpecPublishFair ==
    /\ InitPublish
    /\ [][PublishNext]_vars
    /\ WF_vars(PubStart)
    /\ WF_vars(PubSubmit)
    /\ WF_vars(PubAwaitBegin)
    /\ WF_vars(DeadlinePass)
    /\ WF_vars(\E i \in 1..Len(futures) : PubYield(i))
    /\ WF_vars(PubReturn)

Init ==
    /\ ConsumerOff
    /\ WindowOff
    /\ PUBSUB_PROJECT_ID \in CfgValues
    /\ PUBSUB_TOPIC_ID \in CfgValues
    /\ BATCH_SIZE \in 1..MaxBatchSize
    /\ epc = "start"
    /\ row_count = NoValue
    /\ events = <<>>
    /\ streamed = 0
    /\ published_count = NoValue
    /\ result = NoResult
    /\ errorAt = "none"
    /\ probeCalls = 0
    /\ probeFailed = FALSE
    /\ queryCalls = 0
    /\ publishCalls = <<>>
    /\ publishReturns = <<>>
    /\ PubIdle

Next == EtlNext \/ PublishNext

Spec == Init /\ [][Next]_vars

\* ---- the time window, src/config.py lines 36-49 ----
MaxHour == 3
MaxLag == 3
MinLag == 0 - 1

\* datetime.replace(minute=, second=, microsecond=)
Replace(d, mi, sec, us) == DateTime(d.hours, mi, sec, us)

\* timedelta(hours=h), normalised to seconds and microseconds
Timedelta(h) == [seconds |-> h * 3600, microseconds |-> 0]

\* datetime + timedelta: the datetime as seconds and microseconds, the sum
\* normalised, then split again by divmod
Plus(d, delta) ==
    LET us  == d.microsecond + delta.microseconds
        sec == (d.hours * 60 + d.minute) * 60 + d.second + delta.seconds
                 + (us \div 1000000)
    IN  DateTime(sec \div 3600, (sec \div 60) % 60, sec % 60, us % 1000000)

Minus(d, delta) ==
    Plus(d, [seconds |-> 0 - delta.seconds,
             microseconds |-> 0 - delta.microseconds])

\* lines 43-44 with the rounding left out
get_min_timestamp_NoRound(ct, lag) == Minus(ct, Timedelta(lag))

\* Config.get_min_timestamp, lines 43-44
get_min_timestamp(ct, lag) == Minus(Replace(ct, 0, 0, 0), Timedelta(lag))

\* Config.get_max_timestamp, line 49
get_max_timestamp(mn) == Plus(mn, Timedelta(1))

\* main.py line 48
WindowMin ==
    /\ wpc = "start"
    /\ min_timestamp' = get_min_timestamp(current_time, HOURS_BEHIND)
    /\ wpc' = "min"
    /\ UNCHANGED <<HOURS_BEHIND, current_time, max_timestamp, cfgVars, etlVars,
                   pubVars, conVars, mainVars>>

\* main.py line 49
WindowMax ==
    /\ wpc = "min"
    /\ max_timestamp' = get_max_timestamp(min_timestamp)
    /\ wpc' = "done"
    /\ UNCHANGED <<HOURS_BEHIND, current_time, min_timestamp, cfgVars, etlVars,
                   pubVars, conVars, mainVars>>

WindowNext == WindowMin \/ WindowMax

\* any lag and any current time, main.py line 47 and config.py line 27
InitWindow ==
    /\ PUBSUB_PROJECT_ID = "set"
    /\ PUBSUB_TOPIC_ID = "set"
    /\ BATCH_SIZE = 1
    /\ EtlOff
    /\ PubIdle
    /\ ConsumerOff
    /\ HOURS_BEHIND \in MinLag..MaxLag
    /\ \E h \in 0..MaxHour, mi \in {0, 1, 59}, sec \in {0, 1, 59},
          us \in {0, 1, 999999} : current_time = DateTime(h, mi, sec, us)
    /\ min_timestamp = DateTime(0, 0, 0, 0)
    /\ max_timestamp = DateTime(0, 0, 0, 0)
    /\ wpc = "start"

SpecWindow == InitWindow /\ [][WindowNext]_vars

\* ------------------------------------------------- process_messages.py
\* The data of a message, by what the three decoding steps and the handlers
\* see of it:
\*   utf8     message.data.decode('utf-8') succeeds
\*   json     what json.loads makes of the text: "invalid" (JSONDecodeError),
\*            "array" (any value that is no mapping) or "object"
\*   type     the mapping's type field, "absent" without one
\*   payload  the mapping's payload field:
\*              "absent"          no payload field
\*              "object"          a nested mapping
\*              "string_object"   the JSON text of that mapping
\*              "string_invalid"  a string that is no JSON
\*              "string_array"    the JSON text of a value that is no mapping
\*              "array"           a nested value that is no mapping nor a string
BadUtf8 == [utf8 |-> FALSE, json |-> "invalid", type |-> "absent",
            payload |-> "absent", entity |-> "absent"]
BadJson == [utf8 |-> TRUE, json |-> "invalid", type |-> "absent",
            payload |-> "absent", entity |-> "absent"]
NonMapping == [utf8 |-> TRUE, json |-> "array", type |-> "absent",
               payload |-> "absent", entity |-> "absent"]
\* a mapping with a type, a payload of shape p and, inside a payload that is
\* or encodes a mapping, the value e under the key the handler of the type
\* reads (pull_request, issue, release, commits)
Event(t, p, e) == [utf8 |-> TRUE, json |-> "object", type |-> t,
                   payload |-> p, entity |-> e]

RecognizedTypes == {"PullRequestEvent", "IssuesEvent", "ReleaseEvent", "PushEvent"}
EventTypes == RecognizedTypes \cup {"WatchEvent", "absent"}
PayloadShapes == {"absent", "object", "string_object", "string_invalid",
                  "string_array", "array"}
MappingShapes == {"object", "string_object"}
Entities == {"absent", "mapping", "list", "null"}

MessageData ==
    {BadUtf8, BadJson, NonMapping}
        \cup {Event(t, p, "absent") : t \in EventTypes, p \in PayloadShapes}
        \cup {Event(t, p, e) : t \in EventTypes, p \in MappingShapes, e \in Entities}

\* the messages the broker delivers in a consumer run of the model
PulledData ==
    {BadUtf8, BadJson, NonMapping,
     Event("PushEvent", "object", "list"),
     Event("WatchEvent", "absent", "absent")}

\* what a handler does with the value it reads from the payload, lines
\* 129-132, 147-150, 164-167, 182-185: pr.get / issue.get / release.get need
\* a mapping, len(commits) a mapping or a list; the default covers absence
EntityAccess(type, entity) ==
    CASE entity = "absent" -> "returns"
      [] entity = "mapping" -> "returns"
      [] entity = "list" -> IF type = "PushEvent" THEN "returns" ELSE "raises"
      [] entity = "null" -> "raises"

\* _process_pull_request, _process_issue, _process_release, _process_push:
\* "returns" when the handler returns, "raises" when an exception leaves it
Handler_NoReparse(data) ==
    CASE data.payload = "absent" -> "returns"
      [] data.payload = "object" -> EntityAccess(data.type, data.entity)
      [] data.payload = "string_object" -> "raises"
      [] data.payload = "string_invalid" -> "raises"
      [] data.payload = "string_array" -> "raises"
      [] data.payload = "array" -> "raises"
Handler(data) ==
    CASE data.payload = "absent" -> "returns"     \* event.get('payload', {})
      [] data.payload = "object" -> EntityAccess(data.type, data.entity)
      [] data.payload = "string_object" ->        \* json.loads gives the mapping
             EntityAccess(data.type, data.entity)
      [] data.payload = "string_invalid" -> "returns"  \* JSONDecodeError: log, return
      [] data.payload = "string_array" -> "raises"     \* payload.get: AttributeError
      [] data.payload = "array" -> "raises"            \* payload.get: AttributeError

\* lines 94-105: the handler of a recognized type, else a warning only
Dispatch_UnknownRaises(data) ==
    IF data.type \in RecognizedTypes THEN Handler(data) ELSE "raises"
Dispatch(data) ==
    IF data.type \in RecognizedTypes THEN Handler(data) ELSE "returns"

\* GitHubEventProcessor.process_single_message: its return value
process_single_message_NoJsonCheck(data) ==
    IF ~data.utf8 THEN FALSE
    ELSE IF data.json = "invalid" THEN TRUE
    ELSE IF data.json # "object" THEN FALSE
    ELSE Dispatch(data) = "returns"
process_single_message(data) ==
    IF ~data.utf8 THEN FALSE                      \* UnicodeDecodeError
    ELSE IF data.json = "invalid" THEN FALSE      \* JSONDecodeError
    ELSE IF data.json # "object" THEN FALSE       \* not isinstance(.., dict)
    ELSE Dispatch(data) = "returns"               \* "except Exception": False

\* ThreadPoolExecutor(max_workers=10)
MaxWorkers == 10

NewTask == [state |-> "queued", result |-> "none", collected |-> FALSE]

Running == {i \in 1..Len(tasks) : tasks[i].state = "running"}

\* "if batch_size < max_messages: break", process_messages.py:274
QueueDrained_Always(batch_size, requested) == batch_size <= requested
QueueDrained(batch_size, requested) == batch_size < requested

\* subscriber.pull returns n messages (process_messages.py:214-239): none
\* ends the loop, else every message is submitted to a fresh pool
ConsumerPull(n, datas) ==
    /\ cpc = "pull"
    /\ n <= max_messages
    /\ Len(received) + n <= MaxDeliveries
    /\ pullLog' = Append(pullLog, [n |-> n, raised |-> FALSE])
    /\ LET pull == Len(pullLog) + 1
           msgs == [i \in 1..n |-> [ack_id |-> Len(received) + i, data |-> datas[i]]]
       IN  /\ received' = received \o
                 [i \in 1..n |-> [data |-> datas[i], pull |-> pull,
                                  runs |-> 0, outcome |-> "none"]]
           /\ IF n = 0
              THEN /\ cpc' = "finished"
                   /\ UNCHANGED <<batch, tasks, processed_count, failed_count, ack_ids>>
              ELSE /\ cpc' = "processing"
                   /\ batch' = msgs
                   /\ tasks' = [i \in 1..n |-> NewTask]
                   /\ processed_count' = 0
                   /\ failed_count' = 0
                   /\ ack_ids' = <<>>
    /\ UNCHANGED <<max_messages, total_processed, total_failed, ackSent, acked,
                   cfgVars, etlVars, pubVars, mainVars, winVars>>

\* subscriber.pull throws: "except Exception ... break", lines 277-279
ConsumerPullRaise ==
    /\ cpc = "pull"
    /\ pullLog' = Append(pullLog, [n |-> 0, raised |-> TRUE])
    /\ cpc' = "finished"
    /\ UNCHANGED <<max_messages, batch, tasks, processed_count, failed_count,
                   ack_ids, total_processed, total_failed, received, ackSent,
                   acked, cfgVars, etlVars, pubVars, mainVars, winVars>>

\* a worker of the pool takes a queued task
TaskStart(i) ==
    /\ cpc = "processing"
    /\ i \in 1..Len(tasks)
    /\ tasks[i].state = "queued"
    /\ Cardinality(Running) < MaxWorkers
    /\ tasks' = [tasks EXCEPT ![i].state = "running"]
    /\ received' = [received EXCEPT ![batch[i].ack_id].runs = @ + 1]
    /\ UNCHANGED <<max_messages, cpc, batch, processed_count, failed_count,
                   ack_ids, total_processed, total_failed, pullLog, ackSent,
                   acked, cfgVars, etlVars, pubVars, mainVars, winVars>>

\* process_single_message returns in its worker
TaskFinish(i) ==
    /\ cpc = "processing"
    /\ i \in 1..Len(tasks)
    /\ tasks[i].state = "running"
    /\ tasks' = [tasks EXCEPT
                    ![i].state = "done",
                    ![i].result = IF process_single_message(batch[i].data)
                                  THEN "true" ELSE "false"]
    /\ UNCHANGED <<max_messages, cpc, batch, processed_count, failed_count,
                   ack_ids, total_processed, total_failed, received, pullLog,
                   ackSent, acked, cfgVars, etlVars, pubVars, mainVars, winVars>>

\* the worker's call ends with an exception instead (one thrown while
\* process_single_message handles another): future.result() will raise
TaskRaise(i) ==
    /\ cpc = "processing"
    /\ i \in 1..Len(tasks)
    /\ tasks[i].state = "running"
    /\ tasks' = [tasks EXCEPT ![i].state = "done", ![i].result = "raised"]
    /\ UNCHANGED <<max_messages, cpc, batch, processed_count, failed_count,
                   ack_ids, total_processed, total_failed, received, pullLog,
                   ackSent, acked, cfgVars, etlVars, pubVars, mainVars, winVars>>

\* lines 245-247: the ack id joins ack_ids only when future.result() is true
AckIdsAfter_Always(ids, res, id) == Append(ids, id)
AckIdsAfter(ids, res, id) == IF res = "true" THEN Append(ids, id) ELSE ids

\* lines 248-253: failed_count grows for a false result and for a
\* future.result() that raises
FailedAfter_FalseOnly(count, res) == IF res = "false" THEN count + 1 ELSE count
FailedAfter(count, res) == IF res = "true" THEN count ELSE count + 1

\* one pass of the as_completed loop, lines 242-253, on a finished task
Collect(i) ==
    /\ cpc = "processing"
    /\ i \in 1..Len(tasks)
    /\ tasks[i].state = "done"
    /\ ~tasks[i].collected
    /\ tasks' = [tasks EXCEPT ![i].collected = TRUE]
    /\ processed_count' = IF tasks[i].result = "true"
                          THEN processed_count + 1 ELSE processed_count
    /\ failed_count' = FailedAfter(failed_count, tasks[i].result)
    /\ ack_ids' = AckIdsAfter(ack_ids, tasks[i].result, batch[i].ack_id)
    /\ received' = [received EXCEPT ![batch[i].ack_id].outcome = tasks[i].result]
    /\ UNCHANGED <<max_messages, cpc, batch, total_processed, total_failed,
                   pullLog, ackSent, acked, cfgVars, etlVars, pubVars, mainVars, winVars>>

\* the as_completed loop has yielded every future of the batch and the
\* "with ThreadPoolExecutor" block is left, lines 234-253
PoolDrained_Early == \E i \in 1..Len(tasks) : tasks[i].collected
PoolDrained == \A i \in 1..Len(tasks) : tasks[i].collected

\* lines 255-275, once the pool has drained: the acknowledge request for a
\* non-empty ack_ids (accepted, or failing with a logged exception), the
\* totals, and the test that ends the loop
ConsumerFinishBatch(ackOk) ==
    /\ cpc = "processing"
    /\ PoolDrained
    /\ IF ack_ids # <<>>
       THEN /\ ackSent' = Append(ackSent, [pull |-> Len(pullLog), ids |-> ack_ids,
                                          accepted |-> ackOk])
            /\ acked' = IF ackOk
                        THEN acked \cup {ack_ids[k] : k \in 1..Len(ack_ids)}
                        ELSE acked
       ELSE /\ ackOk
            /\ UNCHANGED <<ackSent, acked>>
    /\ total_processed' = total_processed + processed_count
    /\ total_failed' = total_failed + failed_count
    /\ cpc' = IF QueueDrained(Len(batch), max_messages) THEN "finished" ELSE "pull"
    /\ UNCHANGED <<max_messages, batch, tasks, processed_count, failed_count,
                   ack_ids, received, pullLog, cfgVars, etlVars, pubVars, mainVars, winVars>>

\* main, lines 289-296: the two settings, sys.exit(1) without them, else the
\* processor and the call of pull_and_process_all()
MainStart ==
    /\ mpc = "start"
    /\ IF Missing(PROJECT_ID) \/ Missing(SUBSCRIPTION_ID)
       THEN /\ mpc' = "exited"
            /\ exit_code' = 1
            /\ UNCHANGED cpc
       ELSE /\ mpc' = "running"
            /\ cpc' = "pull"
            /\ UNCHANGED exit_code
    /\ UNCHANGED <<PROJECT_ID, SUBSCRIPTION_ID, stdout, uncaught, max_messages,
                   batch, tasks, processed_count, failed_count, ack_ids,
                   total_processed, total_failed, received, pullLog, ackSent,
                   acked, cfgVars, etlVars, pubVars, winVars>>

\* GitHubEventProcessor(...) throws at line 296, outside the try: the
\* exception leaves main and the interpreter ends the process with code 1
MainConstructFail ==
    /\ mpc = "start"
    /\ ~(Missing(PROJECT_ID) \/ Missing(SUBSCRIPTION_ID))
    /\ mpc' = "exited"
    /\ uncaught' = TRUE
    /\ exit_code' = 1
    /\ UNCHANGED <<PROJECT_ID, SUBSCRIPTION_ID, stdout, conVars, cfgVars, etlVars,
                   pubVars, winVars>>

\* the exit code main decides at lines 305-310: sys.exit(1) with a failed
\* message, else the normal end of the process
ExitCodeFor(failed) == IF failed > 0 THEN 1 ELSE 0

\* main, lines 299-310, once pull_and_process_all has returned its two totals
MainReport ==
    /\ mpc = "running"
    /\ cpc = "finished"
    /\ stdout' = <<[name |-> "PROCESSED_COUNT", value |-> total_processed],
                   [name |-> "FAILED_COUNT", value |-> total_failed]>>
    /\ exit_code' = ExitCodeFor(total_failed)
    /\ mpc' = "exited"
    /\ UNCHANGED <<PROJECT_ID, SUBSCRIPTION_ID, uncaught, conVars, cfgVars,
                   etlVars, pubVars, winVars>>

ConsumerNext ==
    \/ MainStart
    \/ MainConstructFail
    \/ MainReport
    \/ \E n \in 0..MaxMessagesArg :
          \E datas \in [1..n -> PulledData] : ConsumerPull(n, datas)
    \/ ConsumerPullRaise
    \/ \E i \in 1..Len(tasks) : TaskStart(i)
    \/ \E i \in 1..Len(tasks) : TaskFinish(i)
    \/ \E i \in 1..Len(tasks) : TaskRaise(i)
    \/ \E i \in 1..Len(tasks) : Collect(i)
    \/ \E ackOk \in BOOLEAN : ConsumerFinishBatch(ackOk)

InitConsumer ==
    /\ PUBSUB_PROJECT_ID = "set"
    /\ PUBSUB_TOPIC_ID = "set"
    /\ BATCH_SIZE = 1
    /\ EtlOff
    /\ PubIdle
    /\ WindowOff
    /\ PROJECT_ID \in CfgValues
    /\ SUBSCRIPTION_ID \in CfgValues
    /\ mpc = "start"
    /\ stdout = <<>>
    /\ exit_code = NoValue
    /\ uncaught = FALSE
    /\ max_messages \in 1..MaxMessagesArg
    /\ cpc = "off"
    /\ batch = <<>>
    /\ tasks = <<>>
    /\ processed_count = 0
    /\ failed_count = 0
    /\ ack_ids = <<>>
    /\ total_processed = 0
    /\ total_failed = 0
    /\ received = <<>>
    /\ pullLog = <<>>
    /\ ackSent = <<>>
    /\ acked = {}

SpecConsumer == InitConsumer /\ [][ConsumerNext]_vars

\* =================================================================
\* The claims
\* =================================================================
\* the records of the stream so far, in stream order
Streamed == [i \in 1..streamed |-> i]

RunSucceeded == epc = "done" /\ result.status = "success"

\* C1: on every run that returns status "success", events_published equals
\* the sum of the success counts returned by all publish_events calls of the
\* run (the full chunks and the remainder).
C1_PublishedIsSumOfReturns ==
    RunSucceeded => result.events_published = SumSeq(publishReturns)

\* C2: the buffer never holds more than the chunk threshold; every publish
\* call carries exactly the threshold, except the last call of a finished
\* stream, which carries the non-zero remainder; a successful run of n
\* records made floor(n / threshold) full calls plus one for a non-zero
\* remainder, and the calls together carry records 1..n once, in order.
C2_ChunkedPublishCalls ==
    LET T == ChunkThreshold
        n == streamed
        calls == publishCalls
    IN  /\ Len(events) <= T
        /\ \A k \in 1..Len(calls) :
              \/ Len(calls[k]) = T
              \/ /\ k = Len(calls)
                 /\ k = n \div T + 1
                 /\ Len(calls[k]) = n % T
                 /\ n % T # 0
                 /\ epc \in {"rest_publish", "done"}
        /\ Flatten(calls) = SubSeq(Streamed, 1, Len(Flatten(calls)))
        /\ RunSucceeded =>
              /\ Len(calls) = n \div T + (IF n % T # 0 THEN 1 ELSE 0)
              /\ Flatten(calls) = Streamed

\* two full chunks and a remainder: the sizes [T, T, 1]
C2_Witness ==
    /\ RunSucceeded
    /\ streamed = 2 * ChunkThreshold + 1
    /\ Len(publishCalls) = 3
    /\ Len(publishCalls[3]) = 1

\* C4: when the row-count probe returns 0 the run ends with the success
\* summary with zero counts, and neither the streamed query nor
\* publish_events was invoked.
C4_ZeroCountShortCircuits ==
    (probeCalls > 0 /\ row_count = 0) =>
        /\ epc = "done"
        /\ result = [status |-> "success", events_processed |-> 0,
                     events_published |-> 0]
        /\ queryCalls = 0
        /\ publishCalls = <<>>
        /\ futures = <<>>

C4_Witness == probeCalls = 1 /\ row_count = 0 /\ epc = "done"

\* C8: the run never lets an exception out; an error at any step (the
\* configuration, the clients, the stream, a publish submission) ends the run
\* with status "error" and zero counts, whatever was published before.
C8_ErrorsBecomeErrorSummary ==
    /\ epc # "crashed"
    /\ errorAt # "none" =>
          /\ epc = "done"
          /\ result = [status |-> "error", events_processed |-> 0,
                       events_published |-> 0]
    /\ (epc = "done" /\ errorAt = "none") => result.status = "success"

\* the stream fails after a chunk was published with successes
C8_Witness ==
    /\ errorAt = "stream"
    /\ epc = "done"
    /\ Len(publishReturns) >= 1
    /\ SumSeq(publishReturns) > 0
    /\ result.events_published = 0

\* C10: with the destination project id or topic id missing or empty, the
\* run ends with an error summary and issues no row-count probe, no streamed
\* query and no publish request.
C10_InvalidConfigNoIO ==
    (PUBSUB_PROJECT_ID \in {"none", "empty"} \/ PUBSUB_TOPIC_ID \in {"none", "empty"}) =>
        /\ probeCalls = 0
        /\ queryCalls = 0
        /\ publishCalls = <<>>
        /\ futures = <<>>
        /\ epc \in {"start", "done"}
        /\ epc = "done" => result.status = "error"

C10_Witness ==
    /\ PUBSUB_PROJECT_ID = "set"
    /\ PUBSUB_TOPIC_ID = "empty"
    /\ epc = "done"
    /\ result.status = "error"

\* C12: when the row-count query fails, get_row_count returns 0 and raises
\* nothing: the failure does not reach the top-level handler, and the run
\* takes the early exit: status "success", zero counts, no streamed query.
C12_ProbeFailureIsZeroCount ==
    probeFailed =>
        /\ row_count = 0
        /\ errorAt = "none"
        /\ epc = "done"
        /\ result = [status |-> "success", events_processed |-> 0,
                     events_published |-> 0]
        /\ queryCalls = 0
        /\ publishCalls = <<>>

C12_Witness == probeFailed /\ probeCalls = 1 /\ result.status = "success"

\* C17: when the submission phase throws, publish_events raises and returns
\* no count (a returned call submitted every event); the run makes no further
\* publish call and returns the error summary.
C17_SubmissionFailureIsFatal ==
    /\ ppc = "raised" => (pret = NoValue /\ Len(futures) < Len(pevents))
    /\ (ppc = "returned" /\ pevents # <<>>) => Len(futures) = Len(pevents)
    /\ errorAt = "publish" =>
          /\ epc = "done"
          /\ result = [status |-> "error", events_processed |-> 0,
                       events_published |-> 0]
          /\ Len(publishCalls) = Len(publishReturns) + 1
          /\ Len(futures) < Len(publishCalls[Len(publishCalls)])

\* the second call's submission throws after a first chunk was published
C17_Witness ==
    /\ errorAt = "publish"
    /\ Len(publishCalls) = 2
    /\ Len(publishReturns) = 1
    /\ result.status = "error"

\* C20: on a successful run that did not take the early exit,
\* events_processed is the value the row-count probe returned, whatever
\* number of records the stream yielded.
C20_ProcessedIsProbeValue ==
    (RunSucceeded /\ queryCalls > 0) =>
        /\ row_count > 0
        /\ result.events_processed = row_count

\* the probe said 1 and the stream yielded 7
C20_Witness ==
    /\ RunSucceeded
    /\ queryCalls = 1
    /\ row_count = 1
    /\ streamed = MaxRecords
    /\ result.events_processed = 1

\* ---- publish_events alone (SpecPublish) ----
Failed(f) == f.state = "failed"
\* not completed within 30 units of the start of its await
TimedOut(f) == f.state = "pending" \/ f.late
NumFailedOrTimedOut ==
    Cardinality({i \in 1..Len(futures) : Failed(futures[i]) \/ TimedOut(futures[i])})

\* C5: a call with N >= 1 events, all submitted, of which K fail or time out,
\* returns N - K and does not raise.
C5_ReturnsNMinusK ==
    /\ (ppc = "returned" /\ Len(pevents) >= 1) =>
          pret = Len(pevents) - NumFailedOrTimedOut
    /\ (ppc = "raised") => Len(futures) < Len(pevents)

\* C14: publish_events eventually returns (or raises) even when a submitted
\* request never completes: the request is given up after its 30 units.
C14_EventuallyReturns == <>(ppc \in {"returned", "raised"})

FutureEvents == [i \in 1..Len(futures) |-> futures[i].ev]

\* C15: the requests submitted so far are one per input event, in input
\* order, and no result is awaited before every event has its request.
C15_SubmitAllThenAwait ==
    /\ Len(futures) <= Len(pevents)
    /\ FutureEvents = SubSeq(pevents, 1, Len(futures))
    /\ (\E i \in 1..Len(futures) : futures[i].yielded) =>
          Len(futures) = Len(pevents)
    /\ pcount > 0 => Len(futures) = Len(pevents)
    /\ (ppc = "awaiting" \/ (ppc = "returned" /\ pevents # <<>>)) =>
          FutureEvents = pevents

\* three events in sub-batches of two, all submitted, the first result taken
C15_Witness ==
    /\ epc = "off"
    /\ ppc = "awaiting"
    /\ BATCH_SIZE = 2
    /\ Len(futures) = 3
    /\ \E i \in 1..Len(futures) : futures[i].yielded

\* the slices another positive sub-batch size would give for the same input
SlicesWith(size) == _create_batches(pevents, size)
NumOk == Cardinality({i \in 1..Len(futures) : futures[i].state = "ok"})

\* C21: for every sub-batch size of at least 1, _create_batches gives
\* consecutive slices of that size (the last one possibly shorter, none
\* empty) whose concatenation is the input, so the requests, their order and
\* the returned count are those of any other size: the requests follow the
\* input and the count is the number of requests that succeeded.
C21_BatchSizeHasNoEffect ==
    /\ \A size \in 1..(MaxEvents + 1) :
          /\ Flatten(SlicesWith(size)) = pevents
          /\ SubmissionOrder = Flatten(SlicesWith(size))
          /\ \A b \in 1..Len(SlicesWith(size)) :
                /\ Len(SlicesWith(size)[b]) >= 1
                /\ Len(SlicesWith(size)[b]) <= size
                /\ b < Len(SlicesWith(size)) => Len(SlicesWith(size)[b]) = size
    /\ FutureEvents = SubSeq(pevents, 1, Len(futures))
    /\ (ppc = "returned" /\ pevents # <<>>) =>
          /\ FutureEvents = pevents
          /\ pret = NumOk

\* three events published in sub-batches of two, one request failed
C21_Witness ==
    /\ epc = "off"
    /\ ppc = "returned"
    /\ BATCH_SIZE = 2
    /\ Len(pevents) = 3
    /\ Len(_create_batches(pevents, BATCH_SIZE)) = 2
    /\ pret = 2

\* C9: a call with an empty sequence returns 0 and submits no request.
C9_EmptyInputReturnsZero ==
    pevents = <<>> =>
        /\ futures = <<>>
        /\ ppc # "raised"
        /\ ppc = "returned" => pret = 0

C9_Witness == ppc = "returned" /\ pevents = <<>> /\ epc = "off"

\* ---- pull_and_process_all (SpecConsumer) ----
AckIdSet(r) == {ackSent[r].ids[k] : k \in 1..Len(ackSent[r].ids)}
MsgsOf(p) == {k \in 1..Len(received) : received[k].pull = p}
SucceededOf(p) == {k \in MsgsOf(p) : received[k].outcome = "true"}
RequestsOf(p) == {r \in 1..Len(ackSent) : ackSent[r].pull = p}
\* the batch of pull p has been through its acknowledge step and the totals
BatchDone(p) == p < Len(pullLog) \/ cpc \in {"pull", "finished"}
LastPull == pullLog[Len(pullLog)]

\* C3: the acknowledge request of a batch carries exactly the ack ids of the
\* messages of that batch whose processing returned True; a message whose
\* processing returned False or raised is in no request and is never
\* acknowledged; a batch without a success sends no request.
C3_AckExactlySuccesses ==
    /\ \A r \in 1..Len(ackSent) :
          /\ AckIdSet(r) = SucceededOf(ackSent[r].pull)
          /\ Cardinality(AckIdSet(r)) = Len(ackSent[r].ids)
          /\ AckIdSet(r) # {}
    /\ \A p \in 1..Len(pullLog) :
          /\ Cardinality(RequestsOf(p)) <= 1
          /\ (BatchDone(p) /\ SucceededOf(p) # {}) => RequestsOf(p) # {}
          /\ SucceededOf(p) = {} => RequestsOf(p) = {}
    /\ \A k \in 1..Len(received) :
          received[k].outcome \in {"false", "raised"} =>
              /\ k \notin acked
              /\ \A r \in 1..Len(ackSent) : k \notin AckIdSet(r)
    /\ \A k \in acked : received[k].outcome = "true"

\* a batch of a success and a failure, acknowledged with the one ack id
C3_Witness ==
    \E r \in 1..Len(ackSent) :
        /\ Len(ackSent[r].ids) = 1
        /\ Cardinality(MsgsOf(ackSent[r].pull)) = 2
        /\ \E k \in MsgsOf(ackSent[r].pull) : received[k].outcome = "false"
        /\ ackSent[r].accepted

\* C6: another pull is issued exactly when the previous pull returned
\* max_messages messages and nothing raised; a pull of zero messages ends
\* the run with nothing processed; a pull of 1..max_messages-1 messages has
\* its batch processed and acknowledged, and then the run ends.
C6_PullAgainIffFullBatch ==
    /\ \A p \in 1..(Len(pullLog) - 1) :
          ~pullLog[p].raised /\ pullLog[p].n = max_messages
    /\ (cpc = "pull" /\ pullLog # <<>>) =>
          ~LastPull.raised /\ LastPull.n = max_messages
    /\ cpc = "finished" =>
          /\ pullLog # <<>>
          /\ LastPull.raised \/ LastPull.n # max_messages
    /\ (pullLog # <<>> /\ LastPull.n = 0) =>
          /\ cpc = "finished"
          /\ MsgsOf(Len(pullLog)) = {}
          /\ total_processed + total_failed = Len(received)
    /\ (cpc = "finished" /\ LastPull.n \in 1..(max_messages - 1)) =>
          /\ \A k \in MsgsOf(Len(pullLog)) :
                received[k].runs = 1 /\ received[k].outcome # "none"
          /\ SucceededOf(Len(pullLog)) # {} => RequestsOf(Len(pullLog)) # {}

\* a full batch followed by a short one, after which the run ended
C6_Witness ==
    /\ cpc = "finished"
    /\ max_messages = 2
    /\ Len(pullLog) = 2
    /\ pullLog[1].n = 2
    /\ pullLog[2].n = 1
    /\ total_processed + total_failed = 3

DecodeFailure(data) == ~data.utf8 \/ data.json # "object"
DoneMsgs == {k \in 1..Len(received) : BatchDone(received[k].pull)}

\* C7: a message that fails UTF-8 decoding, JSON parsing or the mapping test
\* is counted as failed and not acknowledged; the other messages of its batch
\* are each processed once and acknowledged when they succeed, and a full
\* batch is followed by the next pull all the same.
C7_DecodeFailureIsolated ==
    /\ \A k \in 1..Len(received) :
          (DecodeFailure(received[k].data) /\ received[k].outcome # "none") =>
              /\ received[k].outcome \in {"false", "raised"}
              /\ k \notin acked
              /\ \A r \in 1..Len(ackSent) : k \notin AckIdSet(r)
    /\ total_failed = Cardinality({k \in DoneMsgs : received[k].outcome # "true"})
    /\ total_processed = Cardinality({k \in DoneMsgs : received[k].outcome = "true"})
    /\ \A k \in DoneMsgs :
          /\ received[k].runs = 1
          /\ received[k].outcome # "none"
          /\ received[k].outcome = "true" =>
                \E r \in RequestsOf(received[k].pull) : k \in AckIdSet(r)
    /\ \A p \in 1..Len(pullLog) :
          (BatchDone(p) /\ ~pullLog[p].raised /\ pullLog[p].n = max_messages) =>
              (p < Len(pullLog) \/ cpc = "pull")

\* a full batch of a message that is no JSON and a push event: the push event
\* is acknowledged, the other is counted as failed, and the loop pulled again
C7_Witness ==
    /\ max_messages = 2
    /\ Len(pullLog) >= 2
    /\ \E k \in MsgsOf(1) : received[k].data = BadJson /\ received[k].outcome = "false"
    /\ \E k \in MsgsOf(1) : received[k].data.type = "PushEvent" /\ k \in acked
    /\ total_failed >= 1
    /\ total_processed >= 1

\* ---- one batch of messages of any content (SpecMessage) ----
\* what one pull delivers: one message of any content, the two payload shapes
\* of one event, or any message followed by a well-formed push event
MessagePulls ==
    {<<d>> : d \in MessageData}
      \cup {<<Event(t, "object", e), Event(t, "string_object", e)>> :
               t \in RecognizedTypes, e \in Entities}
      \cup {<<d, Event("PushEvent", "object", "list")>> : d \in MessageData}

MessageNext ==
    \/ \E datas \in MessagePulls : ConsumerPull(Len(datas), datas)
    \/ \E i \in 1..Len(tasks) : TaskStart(i)
    \/ \E i \in 1..Len(tasks) : TaskFinish(i)
    \/ \E i \in 1..Len(tasks) : Collect(i)
    \/ \E ackOk \in BOOLEAN : ConsumerFinishBatch(ackOk)

\* pull_and_process_all called with a max_messages above the size of the batch
InitMessage ==
    /\ PUBSUB_PROJECT_ID = "set"
    /\ PUBSUB_TOPIC_ID = "set"
    /\ BATCH_SIZE = 1
    /\ EtlOff
    /\ PubIdle
    /\ WindowOff
    /\ MainOff
    /\ max_messages = MaxDeliveries
    /\ cpc = "pull"
    /\ batch = <<>>
    /\ tasks = <<>>
    /\ processed_count = 0
    /\ failed_count = 0
    /\ ack_ids = <<>>
    /\ total_processed = 0
    /\ total_failed = 0
    /\ received = <<>>
    /\ pullLog = <<>>
    /\ ackSent = <<>>
    /\ acked = {}

SpecMessage == InitMessage /\ [][MessageNext]_vars

\* the message was in an acknowledge request, and is acknowledged when the
\* broker accepted the request
Acknowledged(k) ==
    /\ \E r \in RequestsOf(received[k].pull) : k \in AckIdSet(r)
    /\ \A r \in RequestsOf(received[k].pull) : ackSent[r].accepted => k \in acked

NotAcknowledged(k) ==
    /\ k \notin acked
    /\ \A r \in 1..Len(ackSent) : k \notin AckIdSet(r)

UnknownType(data) ==
    data.utf8 /\ data.json = "object" /\ data.type \notin RecognizedTypes

\* C18: a message that decodes to a mapping whose type is absent or not one
\* of the four recognized types makes process_single_message return True; it
\* is counted as processed, not as failed, and its ack id is in the
\* acknowledge request of its batch.
C18_UnknownTypeSucceeds ==
    /\ \A k \in 1..Len(received) :
          (UnknownType(received[k].data) /\ received[k].outcome # "none") =>
              received[k].outcome = "true"
    /\ \A k \in DoneMsgs :
          UnknownType(received[k].data) => Acknowledged(k)
    /\ cpc = "finished" =>
          /\ total_processed >=
                Cardinality({k \in 1..Len(received) : UnknownType(received[k].data)})
          /\ total_failed <=
                Cardinality({k \in 1..Len(received) : ~UnknownType(received[k].data)})

\* an event of a type that is not recognized, with a payload that would make
\* a handler throw, was processed alone and acknowledged
C18_Witness ==
    /\ cpc = "finished"
    /\ Len(received) = 1
    /\ received[1].data = Event("WatchEvent", "array", "absent")
    /\ total_processed = 1
    /\ total_failed = 0
    /\ 1 \in acked

BothShapes(k) ==
    /\ received[k].data.utf8
    /\ received[k].data.json = "object"
    /\ received[k].data.type \in RecognizedTypes
    /\ received[k].data.payload \in MappingShapes

\* C19 as stated: for each recognized type a payload that is a nested
\* mapping, or the JSON string of one, is processed successfully and
\* acknowledged.
C19_BothShapesSucceed ==
    \A k \in DoneMsgs :
        BothShapes(k) => (received[k].outcome = "true" /\ Acknowledged(k))

\* C19: for each recognized type a payload that is a nested mapping and the
\* JSON string of the same mapping have the same outcome: success and
\* acknowledgement when the value the handler reads from it is absent or a
\* mapping, failure without acknowledgement in both shapes when it is null;
\* whatever the payload, every message of the batch is processed once, gets
\* True or False, and the batch is counted in full.
C19_BothShapesSameOutcome ==
    /\ \A k \in DoneMsgs : \A j \in DoneMsgs :
          ( /\ BothShapes(k)
            /\ BothShapes(j)
            /\ received[k].data.type = received[j].data.type
            /\ received[k].data.entity = received[j].data.entity ) =>
              received[k].outcome = received[j].outcome
    /\ \A k \in DoneMsgs :
          BothShapes(k) =>
              /\ received[k].data.entity \in {"absent", "mapping"} =>
                    (received[k].outcome = "true" /\ Acknowledged(k))
              /\ received[k].data.entity = "null" =>
                    (received[k].outcome = "false" /\ NotAcknowledged(k))
    /\ \A k \in DoneMsgs :
          /\ received[k].runs = 1
          /\ received[k].outcome \in {"true", "false"}
          /\ received[k].data = Event("PushEvent", "object", "list") =>
                (received[k].outcome = "true" /\ Acknowledged(k))
    /\ cpc = "finished" =>
          total_processed + total_failed = Len(received)

\* a pull request event in both shapes in one batch, both acknowledged
C19_Witness ==
    /\ cpc = "finished"
    /\ Len(received) = 2
    /\ received[1].data = Event("PullRequestEvent", "object", "mapping")
    /\ received[2].data = Event("PullRequestEvent", "string_object", "mapping")
    /\ acked = {1, 2}
    /\ total_processed = 2

\* ---- the tallies of a consumer run (SpecConsumer) ----
\* C22: when pull_and_process_all has returned, every message counted as
\* processed was acknowledged to the broker: the processed tally is at most
\* the number of ack ids the broker accepted, also when an acknowledge
\* request failed.
C22_ProcessedWereAcknowledged ==
    cpc = "finished" =>
        /\ total_processed <= Cardinality(acked)
        /\ \A k \in DoneMsgs : received[k].outcome = "true" => k \in acked

\* C23: after any sequence of batches the two tallies add up to the number
\* of messages received in all pulls of the run; each received message went
\* through process_single_message once and is counted in one tally only.
C23_TalliesCoverReceived ==
    /\ cpc \in {"pull", "finished"} =>
          /\ total_processed + total_failed = Len(received)
          /\ Len(received) = SumSeq([p \in 1..Len(pullLog) |-> pullLog[p].n])
          /\ \A k \in 1..Len(received) :
                /\ received[k].runs = 1
                /\ received[k].outcome \in {"true", "false", "raised"}
          /\ total_processed =
                Cardinality({k \in 1..Len(received) : received[k].outcome = "true"})
          /\ total_failed =
                Cardinality({k \in 1..Len(received) : received[k].outcome # "true"})
    /\ \A k \in 1..Len(received) : received[k].runs <= 1
    /\ cpc = "processing" =>
          processed_count + failed_count =
              Cardinality({i \in 1..Len(tasks) : tasks[i].collected})

\* a run of two pulls that ended with one message in each outcome
C23_Witness ==
    /\ cpc = "finished"
    /\ Len(pullLog) = 2
    /\ Len(received) = 3
    /\ \E k \in 1..Len(received) : received[k].outcome = "true"
    /\ \E k \in 1..Len(received) : received[k].outcome = "false"
    /\ \E k \in 1..Len(received) : received[k].outcome = "raised"
    /\ total_processed = 1
    /\ total_failed = 2

\* ---- main of the consumer (SpecConsumer) ----
PullFailed == \E p \in 1..Len(pullLog) : pullLog[p].raised

\* C11: main exits with code 1 if a message failed or an exception occurred
\* during the run, a failed pull request included, and with code 0
\* otherwise; a run that completed pull_and_process_all printed
\* PROCESSED_COUNT and FAILED_COUNT.
C11_ExitCode ==
    (mpc = "exited" /\ PROJECT_ID = "set" /\ SUBSCRIPTION_ID = "set") =>
        /\ exit_code = 1 <=> (total_failed > 0 \/ uncaught \/ PullFailed)
        /\ exit_code \in {0, 1}
        /\ cpc = "finished" =>
              stdout = <<[name |-> "PROCESSED_COUNT", value |-> total_processed],
                         [name |-> "FAILED_COUNT", value |-> total_failed]>>

\* C16: the acknowledge request of a batch is sent only when every message
\* of the batch has been through process_single_message; the next pull comes
\* only after that step; only messages of the latest pull are ever in the
\* pool.
C16_BatchesInSequence ==
    /\ \A r \in 1..Len(ackSent) :
          \A k \in MsgsOf(ackSent[r].pull) :
              received[k].outcome # "none" /\ received[k].runs = 1
    /\ \A k \in 1..Len(received) :
          received[k].pull < Len(pullLog) =>
              /\ received[k].outcome # "none"
              /\ received[k].runs = 1
    /\ \A i \in 1..Len(tasks) :
          (tasks[i].state # "done" \/ ~tasks[i].collected) =>
              /\ cpc = "processing"
              /\ received[batch[i].ack_id].pull = Len(pullLog)
              /\ RequestsOf(Len(pullLog)) = {}
    /\ \A p \in 1..(Len(pullLog) - 1) :
          SucceededOf(p) # {} => RequestsOf(p) # {}

\* the second batch is in the pool, the first was acknowledged
C16_Witness ==
    /\ Len(pullLog) = 2
    /\ cpc = "processing"
    /\ \E i \in 1..Len(tasks) : tasks[i].state = "running"
    /\ RequestsOf(1) # {}

\* ---- the time window (SpecWindow) ----
SecondsOf(d) == (d.hours * 60 + d.minute) * 60 + d.second

\* C13: min_timestamp is the current time rounded down to the hour minus the
\* lag in hours, whatever the minute, second and microsecond of the current
\* time; max_timestamp is one hour later, so the window is one hour long and
\* starts on the hour.
C13_WindowIsAlignedHour ==
    /\ wpc \in {"min", "done"} =>
          /\ min_timestamp.microsecond = 0
          /\ SecondsOf(min_timestamp) % 3600 = 0
          /\ SecondsOf(min_timestamp) =
                SecondsOf(current_time) - (SecondsOf(current_time) % 3600)
                  - HOURS_BEHIND * 3600
          /\ min_timestamp =
                DateTime(current_time.hours - HOURS_BEHIND, 0, 0, 0)
    /\ wpc = "done" =>
          /\ max_timestamp.microsecond = min_timestamp.microsecond
          /\ SecondsOf(max_timestamp) - SecondsOf(min_timestamp) = 3600
          /\ SecondsOf(max_timestamp) % 3600 = 0
          /\ max_timestamp.minute \in 0..59
          /\ max_timestamp.second \in 0..59

\* a current time off the hour in every component, window computed
C13_Witness ==
    /\ wpc = "done"
    /\ current_time.minute = 59
    /\ current_time.second = 59
    /\ current_time.microsecond = 999999
    /\ HOURS_BEHIND = 2

====
